---- MODULE Spec2Model ----
(***************************************************************************)
(* Model of src/mobile_spam_filter.ipynb: a multinomial Naive Bayes SMS    *)
(* spam filter written as a notebook.  Cells run top to bottom; pc is the  *)
(* cell that runs next, the other variables are the notebook's globals,    *)
(* and call records the last call of one of the two classifiers.           *)
(*                                                                         *)
(* Text is a sequence of one-character strings, a token is such a sequence *)
(* too.  Python's float division and multiplication are modelled by exact  *)
(* rationals <<numerator, denominator>> (messages here are too short for   *)
(* rounding or underflow to decide a comparison).                          *)
(***************************************************************************)
EXTENDS Integers, Sequences, FiniteSets, TLC

VARIABLES pc, sms_df, train_sms, test_sms, train_index, test_index, vocabulary, word_counts_per_sms,
          p_spam, p_ham, spam_sms, ham_sms, n_spam, n_ham, n_vocabulary,
          parameters_spam, parameters_ham, call, correct, total, accuracy

vars == <<pc, sms_df, train_sms, test_sms, train_index, test_index, vocabulary, word_counts_per_sms,
          p_spam, p_ham, spam_sms, ham_sms, n_spam, n_ham, n_vocabulary,
          parameters_spam, parameters_ham, call, correct, total, accuracy>>

(***************************************************************************)
(* Bounds and inputs                                                       *)
(***************************************************************************)
\* Largest number of rows of the dataset file.
MaxRows == 4

T_buy_now == <<"b", "u", "y", " ", "n", "o", "w">>
T_buy_cheap == <<"b", "u", "y", " ", "c", "h", "e", "a", "p">>
T_Now_NOW == <<"N", "o", "w", ",", " ", "N", "O", "W", "!">>
T_punct == <<"?", "!">>

\* The SMS texts a dataset row may hold.
Texts == {T_buy_now, T_buy_cheap, T_Now_NOW, T_punct}

\* The messages handed to classify / classify_test_set: also the empty string.
Messages == Texts \cup {<<>>}

Labels == {"spam", "ham"}

Rows == [Label : Labels, SMS : Texts]

(***************************************************************************)
(* Numbers: exact rationals standing for Python floats                     *)
(***************************************************************************)
RECURSIVE GCD(_, _)
GCD(a, b) == IF b = 0 THEN a ELSE GCD(b, a % b)

\* a / b (true division), in lowest terms.  b > 0.
Div(a, b) == LET g == GCD(a, b) IN IF g = 0 THEN <<0, 1>> ELSE <<a \div g, b \div g>>

Mul(x, y) == Div(x[1] * y[1], x[2] * y[2])

Add(x, y) == Div(x[1] * y[2] + y[1] * x[2], x[2] * y[2])

Gt(x, y) == x[1] * y[2] > y[1] * x[2]

Zero == <<0, 1>>

One == <<1, 1>>

(***************************************************************************)
(* Cell 5 / classify: re.sub('\W', ' ', s), str.lower, str.split           *)
(***************************************************************************)
LowerCase == {"a", "b", "c", "e", "h", "n", "o", "p", "u", "w", "y"}

UpperCase == {"N", "O", "W"}

WordChars == LowerCase \cup UpperCase \cup {"_"}

\* re.sub('\W', ' ', string_): every non-word character becomes a space.
erase_punc(string_) ==
    [i \in 1..Len(string_) |->
        IF string_[i] \in WordChars THEN string_[i] ELSE " "]

LowerChar(c) ==
    CASE c = "N" -> "n"
      [] c = "O" -> "o"
      [] c = "W" -> "w"
      [] OTHER -> c

\* str.lower()
lower(s) == [i \in 1..Len(s) |-> LowerChar(s[i])]

RECURSIVE SplitFrom(_, _, _)
SplitFrom(s, i, cur) ==
    IF i > Len(s)
    THEN IF cur = <<>> THEN <<>> ELSE <<cur>>
    ELSE IF s[i] = " "
         THEN IF cur = <<>>
              THEN SplitFrom(s, i + 1, <<>>)
              ELSE <<cur>> \o SplitFrom(s, i + 1, <<>>)
         ELSE SplitFrom(s, i + 1, Append(cur, s[i]))

\* str.split(): split on runs of whitespace, no empty strings.
split(s) == SplitFrom(s, 1, <<>>)

(***************************************************************************)
(* Cell 2: DataFrame.sample(frac, random_state)                            *)
(***************************************************************************)
train_frac == <<4, 5>>

test_frac == <<1, 5>>

\* int(round(frac * n)); frac * n is never halfway between two integers for
\* frac = 0.8 or 0.2.
SampleSize(frac, n) == (2 * frac[1] * n + frac[2]) \div (2 * frac[2])

\* sample without replacement: the first rows of the permutation the seeded
\* generator draws (numpy: permutation(len)[:size]).  The permutation depends
\* on the seed and the length only.
SampleIndex(df, frac, perm) ==
    [i \in 1..SampleSize(frac, Len(df)) |-> perm[i]]

\* The rows of df with the index labels idx, in that order.
Take(df, idx) == [i \in 1..Len(idx) |-> df[idx[i]]]

\* reset_index(drop=True): the index labels become 1..len.
RangeIndex(df) == [i \in 1..Len(df) |-> i]

(***************************************************************************)
(* Cell 6: the vocabulary                                                  *)
(***************************************************************************)
\* train_sms['SMS'].apply(erase_punc).str.lower()
CleanColumn(df) ==
    [i \in 1..Len(df) |-> [Label |-> df[i].Label, SMS |-> lower(erase_punc(df[i].SMS))]]

\* train_sms['SMS'].str.split()
SplitColumn(df) ==
    [i \in 1..Len(df) |-> [Label |-> df[i].Label, SMS |-> split(df[i].SMS)]]

\* for row in train_sms['SMS']: for word in row: vocabulary.append(word)
RECURSIVE AppendAll(_, _)
AppendAll(df, index) ==
    IF index > Len(df) THEN <<>> ELSE df[index].SMS \o AppendAll(df, index + 1)

Range(f) == {f[x] : x \in DOMAIN f}

\* The appended list kept as it is, duplicates included.
ListOfSet_NoSet(lst) == {lst}

\* list(set(vocabulary)): the lists Python may build, one per iteration order
\* of the set.
ListOfSet(lst) ==
    LET S == Range(lst)
    IN  {l \in [1..Cardinality(S) -> S] : Range(l) = S}

(***************************************************************************)
(* Cell 7: word frequencies per message                                    *)
(***************************************************************************)
RECURSIVE CountRow(_, _, _, _)
CountRow(wc, row, index, k) ==
    IF k > Len(row)
    THEN wc
    ELSE CountRow([wc EXCEPT ![row[k]][index] = @ + 1], row, index, k + 1)

RECURSIVE CountRows(_, _, _)
CountRows(wc, df, index) ==
    IF index > Len(df)
    THEN wc
    ELSE CountRows(CountRow(wc, df[index].SMS, index, 1), df, index + 1)

\* {word: [0] * len_train for word in vocabulary}, then one increment per
\* word occurrence.
WordCounts(df, vocab) ==
    CountRows([word \in Range(vocab) |-> [i \in 1..Len(df) |-> 0]], df, 1)

(***************************************************************************)
(* Cells 10-12: the constants                                              *)
(***************************************************************************)
LabelCount(df, label) == Cardinality({i \in 1..Len(df) : df[i].Label = label})

\* A prior smoothed like the parameters.
Prior_Smoothed(df, label) == Div(LabelCount(df, label) + 1, Len(df) + 2)

\* (train_sms_clean['Label'] == label).sum() / len(train_sms_clean)
Prior(df, label) == Div(LabelCount(df, label), Len(df))

\* train_sms_clean[train_sms_clean['Label'] == label]: the indices of the
\* rows kept, in order.
RECURSIVE SelectLabel(_, _, _)
SelectLabel(df, label, index) ==
    IF index > Len(df)
    THEN <<>>
    ELSE (IF df[index].Label = label THEN <<index>> ELSE <<>>)
         \o SelectLabel(df, label, index + 1)

\* dataset['SMS'].apply(len).sum()
RECURSIVE LenSum(_, _, _)
LenSum(df, dataset, k) ==
    IF k > Len(dataset)
    THEN 0
    ELSE Len(df[dataset[k]].SMS) + LenSum(df, dataset, k + 1)

alpha == 1

(***************************************************************************)
(* Cell 13: the parameters                                                 *)
(***************************************************************************)
\* dataset[word].sum(): the word's column summed over the rows of dataset.
RECURSIVE ColumnSum(_, _, _)
ColumnSum(dataset, word, k) ==
    IF k > Len(dataset)
    THEN 0
    ELSE word_counts_per_sms[word][dataset[k]] + ColumnSum(dataset, word, k + 1)

\* The smoothing term of the denominator without the vocabulary size.
Parameter_NoVocabulary(nr_words, a, n_dataset, n_vocab) ==
    Div(nr_words + a, n_dataset + a)

\* No smoothing of the numerator.
Parameter_NoAlpha(nr_words, a, n_dataset, n_vocab) ==
    Div(nr_words, n_dataset + (a * n_vocab))

Parameter(nr_words, a, n_dataset, n_vocab) ==
    Div(nr_words + a, n_dataset + (a * n_vocab))

RECURSIVE ParametersLoop(_, _, _, _, _, _, _)
ParametersLoop(dataset, vocab, a, n_dataset, n_vocab, params_dict, k) ==
    IF k > Len(vocab)
    THEN params_dict
    ELSE ParametersLoop(dataset, vocab, a, n_dataset, n_vocab,
             [params_dict EXCEPT ![vocab[k]] =
                 Parameter(ColumnSum(dataset, vocab[k], 1), a, n_dataset, n_vocab)],
             k + 1)

compute_parameters(dataset, vocab, a, n_dataset, n_vocab, params_dict) ==
    ParametersLoop(dataset, vocab, a, n_dataset, n_vocab, params_dict, 1)

(***************************************************************************)
(* Cells 14 and 15: the two classifiers                                    *)
(***************************************************************************)
\* An unknown word read as probability zero.
ScoreStep_UnknownZero(score, word, params) ==
    IF word \in DOMAIN params THEN Mul(score, params[word]) ELSE Zero

\* if word in params: score *= params[word]
ScoreStep(score, word, params) ==
    IF word \in DOMAIN params THEN Mul(score, params[word]) ELSE score

RECURSIVE ScoreLoop(_, _, _, _)
ScoreLoop(score, message, params, k) ==
    IF k > Len(message)
    THEN score
    ELSE ScoreLoop(ScoreStep(score, message[k], params), message, params, k + 1)

Tokens(message) == split(lower(erase_punc(message)))

SpamGivenMessage(message) == ScoreLoop(p_spam, Tokens(message), parameters_spam, 1)

HamGivenMessage(message) == ScoreLoop(p_ham, Tokens(message), parameters_ham, 1)

\* A comparison that never defers to a human.
Compare_NoTie(p_spam_given_message, p_ham_given_message) ==
    IF Gt(p_ham_given_message, p_spam_given_message) THEN "ham" ELSE "spam"

\* A comparison that reads equal scores as ham.
Compare_TieHam(p_spam_given_message, p_ham_given_message) ==
    IF Gt(p_spam_given_message, p_ham_given_message) THEN "spam" ELSE "ham"

Compare(p_spam_given_message, p_ham_given_message) ==
    IF Gt(p_ham_given_message, p_spam_given_message)
    THEN "ham"
    ELSE IF Gt(p_spam_given_message, p_ham_given_message)
         THEN "spam"
         ELSE "needs human classification"

classify_test_set(message) ==
    Compare(SpamGivenMessage(message), HamGivenMessage(message))

\* x < y, as classify writes its second test.
Lt(x, y) == x[1] * y[2] < y[1] * x[2]

\* classify, lines 446-450: its own copy of the loop.
ClassifyStep(score, word, params) ==
    IF word \in DOMAIN params THEN Mul(score, params[word]) ELSE score

RECURSIVE ClassifyLoop(_, _, _, _)
ClassifyLoop(score, message, params, k) ==
    IF k > Len(message)
    THEN score
    ELSE ClassifyLoop(ClassifyStep(score, message[k], params), message, params, k + 1)

\* A verdict that reads equal scores as spam: the second test as <=.
classify_TieSpam(message) ==
    LET tokens == split(lower(erase_punc(message)))
        p_spam_given_message == ClassifyLoop(p_spam, tokens, parameters_spam, 1)
        p_ham_given_message == ClassifyLoop(p_ham, tokens, parameters_ham, 1)
    IN  IF Gt(p_ham_given_message, p_spam_given_message)
        THEN "Label: Ham"
        ELSE "Label: Spam"

\* classify prints its verdict; the second test is p_ham < p_spam.
classify(message) ==
    LET tokens == split(lower(erase_punc(message)))
        p_spam_given_message == ClassifyLoop(p_spam, tokens, parameters_spam, 1)
        p_ham_given_message == ClassifyLoop(p_ham, tokens, parameters_ham, 1)
    IN  IF Gt(p_ham_given_message, p_spam_given_message)
        THEN "Label: Ham"
        ELSE IF Lt(p_ham_given_message, p_spam_given_message)
             THEN "Label: Spam"
             ELSE "Equal proabilities, have a human classify this!"

\* The last call of classify_test_set that apply makes, if it makes one.
LastCall(df, previous) ==
    IF df = <<>>
    THEN previous
    ELSE [fn |-> "classify_test_set", message |-> df[Len(df)].SMS,
          out |-> classify_test_set(df[Len(df)].SMS)]

\* test_sms['predicted'] = test_sms['SMS'].apply(classify_test_set)
Predict(df) ==
    [i \in 1..Len(df) |->
        [Label |-> df[i].Label, SMS |-> df[i].SMS,
         predicted |-> classify_test_set(df[i].SMS)]]

\* A count that takes a deferred message for a correct one.
RECURSIVE CountCorrect_TieCorrect(_, _)
CountCorrect_TieCorrect(df, index) ==
    IF index > Len(df)
    THEN 0
    ELSE (IF df[index].predicted \in {df[index].Label, "needs human classification"}
          THEN 1 ELSE 0)
         + CountCorrect_TieCorrect(df, index + 1)

\* for row in test_sms.itertuples(index=False): if row[0] == row[2]: correct += 1
RECURSIVE CountCorrect(_, _)
CountCorrect(df, index) ==
    IF index > Len(df)
    THEN 0
    ELSE (IF df[index].Label = df[index].predicted THEN 1 ELSE 0)
         + CountCorrect(df, index + 1)

(***************************************************************************)
(* The notebook                                                            *)
(***************************************************************************)
NoCall == [fn |-> "none", message |-> <<>>, out |-> ""]

Init ==
    /\ pc = "cell1"
    /\ sms_df = <<>>
    /\ train_sms = <<>>
    /\ test_sms = <<>>
    /\ train_index = <<>>
    /\ test_index = <<>>
    /\ vocabulary = <<>>
    /\ word_counts_per_sms = <<>>
    /\ p_spam = Zero
    /\ p_ham = Zero
    /\ spam_sms = <<>>
    /\ ham_sms = <<>>
    /\ n_spam = 0
    /\ n_ham = 0
    /\ n_vocabulary = 0
    /\ parameters_spam = <<>>
    /\ parameters_ham = <<>>
    /\ call = NoCall
    /\ correct = 0
    /\ total = 0
    /\ accuracy = Zero

\* Cell 1: pd.read_csv
ReadCsv ==
    /\ pc = "cell1"
    /\ \E n \in 1..MaxRows : sms_df' \in [1..n -> Rows]
    /\ pc' = "cell2"
    /\ UNCHANGED <<train_index, test_index, train_sms, test_sms, vocabulary, word_counts_per_sms, p_spam,
                   p_ham, spam_sms, ham_sms, n_spam, n_ham, n_vocabulary,
                   parameters_spam, parameters_ham, call, correct, total, accuracy>>

\* Cell 2, lines 81 and 84: both samples are drawn with random_state=1
SplitDataset ==
    /\ pc = "cell2"
    /\ \E perm \in Permutations(1..Len(sms_df)) :
          /\ train_index' = SampleIndex(sms_df, train_frac, perm)
          /\ test_index' = SampleIndex(sms_df, test_frac, perm)
    /\ train_sms' = Take(sms_df, train_index')
    /\ test_sms' = Take(sms_df, test_index')
    /\ pc' = "cell2_reset"
    /\ UNCHANGED <<sms_df, vocabulary, word_counts_per_sms, p_spam,
                   p_ham, spam_sms, ham_sms, n_spam, n_ham, n_vocabulary,
                   parameters_spam, parameters_ham, call, correct, total, accuracy>>

\* Cell 2, lines 87 and 88.  No later cell reads sms_df: the model forgets it
\* here, so that runs that differ only in the rows left out of both samples
\* continue as one.
ResetIndex ==
    /\ pc = "cell2_reset"
    /\ train_index' = RangeIndex(train_sms)
    /\ test_index' = RangeIndex(test_sms)
    /\ sms_df' = <<>>
    /\ pc' = "cell5"
    /\ UNCHANGED <<train_sms, test_sms, vocabulary, word_counts_per_sms, p_spam,
                   p_ham, spam_sms, ham_sms, n_spam, n_ham, n_vocabulary,
                   parameters_spam, parameters_ham, call, correct, total, accuracy>>

\* Cell 5
CleanTrain ==
    /\ pc = "cell5"
    /\ train_sms' = CleanColumn(train_sms)
    /\ pc' = "cell6"
    /\ UNCHANGED <<train_index, test_index, sms_df, test_sms, vocabulary, word_counts_per_sms, p_spam,
                   p_ham, spam_sms, ham_sms, n_spam, n_ham, n_vocabulary,
                   parameters_spam, parameters_ham, call, correct, total, accuracy>>

\* Cell 6
CreateVocabulary ==
    /\ pc = "cell6"
    /\ train_sms' = SplitColumn(train_sms)
    /\ vocabulary' \in ListOfSet(AppendAll(train_sms', 1))
    /\ pc' = "cell7"
    /\ UNCHANGED <<train_index, test_index, sms_df, test_sms, word_counts_per_sms, p_spam,
                   p_ham, spam_sms, ham_sms, n_spam, n_ham, n_vocabulary,
                   parameters_spam, parameters_ham, call, correct, total, accuracy>>

\* Cells 7-9: train_sms_clean is train_sms with the columns of
\* word_counts_per_sms beside it.
CountWords ==
    /\ pc = "cell7"
    /\ word_counts_per_sms' = WordCounts(train_sms, vocabulary)
    /\ pc' = "cell10"
    /\ UNCHANGED <<train_index, test_index, sms_df, train_sms, test_sms, vocabulary, p_spam,
                   p_ham, spam_sms, ham_sms, n_spam, n_ham, n_vocabulary,
                   parameters_spam, parameters_ham, call, correct, total, accuracy>>

\* Cell 10
ComputePriors ==
    /\ pc = "cell10"
    /\ p_spam' = Prior(train_sms, "spam")
    /\ p_ham' = Prior(train_sms, "ham")
    /\ pc' = "cell11"
    /\ UNCHANGED <<train_index, test_index, sms_df, train_sms, test_sms, vocabulary, word_counts_per_sms,
                   spam_sms, ham_sms, n_spam, n_ham, n_vocabulary,
                   parameters_spam, parameters_ham, call, correct, total, accuracy>>

\* Cells 11-12
ComputeConstants ==
    /\ pc = "cell11"
    /\ spam_sms' = SelectLabel(train_sms, "spam", 1)
    /\ ham_sms' = SelectLabel(train_sms, "ham", 1)
    /\ n_spam' = LenSum(train_sms, spam_sms', 1)
    /\ n_ham' = LenSum(train_sms, ham_sms', 1)
    /\ n_vocabulary' = Len(vocabulary)
    /\ pc' = "cell13"
    /\ UNCHANGED <<train_index, test_index, sms_df, train_sms, test_sms, vocabulary, word_counts_per_sms,
                   p_spam, p_ham,
                   parameters_spam, parameters_ham, call, correct, total, accuracy>>

\* Cell 13, initialization: {word: 0 for word in vocabulary}
InitParameters ==
    /\ pc = "cell13"
    /\ parameters_spam' = [word \in Range(vocabulary) |-> Zero]
    /\ parameters_ham' = [word \in Range(vocabulary) |-> Zero]
    /\ pc' = "cell13_spam"
    /\ UNCHANGED <<train_index, test_index, sms_df, train_sms, test_sms, vocabulary, word_counts_per_sms,
                   p_spam, p_ham, spam_sms, ham_sms, n_spam, n_ham, n_vocabulary,
                   call, correct, total, accuracy>>

\* Cell 13, compute_parameters(spam_sms, ...)
ComputeParametersSpam ==
    /\ pc = "cell13_spam"
    /\ parameters_spam' = compute_parameters(spam_sms, vocabulary, alpha, n_spam,
                                             n_vocabulary, parameters_spam)
    /\ pc' = "cell13_ham"
    /\ UNCHANGED <<train_index, test_index, sms_df, train_sms, test_sms, vocabulary, word_counts_per_sms,
                   p_spam, p_ham, spam_sms, ham_sms, n_spam, n_ham, n_vocabulary,
                   parameters_ham, call, correct, total, accuracy>>

\* Cell 13, compute_parameters(ham_sms, ...)
ComputeParametersHam ==
    /\ pc = "cell13_ham"
    /\ parameters_ham' = compute_parameters(ham_sms, vocabulary, alpha, n_ham,
                                            n_vocabulary, parameters_ham)
    /\ pc' = "cell14"
    /\ UNCHANGED <<train_index, test_index, sms_df, train_sms, test_sms, vocabulary, word_counts_per_sms,
                   p_spam, p_ham, spam_sms, ham_sms, n_spam, n_ham, n_vocabulary,
                   parameters_spam, call, correct, total, accuracy>>

\* Cell 14: classify(message) on an example message
Classify ==
    /\ pc = "cell14"
    /\ \E message \in Messages :
          call' = [fn |-> "classify", message |-> message, out |-> classify(message)]
    /\ pc' = "cell15"
    /\ UNCHANGED <<train_index, test_index, sms_df, train_sms, test_sms, vocabulary, word_counts_per_sms,
                   p_spam, p_ham, spam_sms, ham_sms, n_spam, n_ham, n_vocabulary,
                   parameters_spam, parameters_ham, correct, total, accuracy>>

\* Cell 15: the test set is classified
ClassifyTestSet ==
    /\ pc = "cell15"
    /\ test_sms' = Predict(test_sms)
    /\ call' = LastCall(test_sms, call)
    /\ pc' = "cell16"
    /\ UNCHANGED <<train_index, test_index, sms_df, train_sms, vocabulary, word_counts_per_sms,
                   p_spam, p_ham, spam_sms, ham_sms, n_spam, n_ham, n_vocabulary,
                   parameters_spam, parameters_ham, correct, total, accuracy>>

\* Cell 16: correct / total raises ZeroDivisionError on an empty test set
ComputeAccuracy ==
    /\ pc = "cell16"
    /\ correct' = CountCorrect(test_sms, 1)
    /\ total' = Len(test_sms)
    /\ IF total' = 0
       THEN accuracy' = accuracy /\ pc' = "error"
       ELSE accuracy' = Div(correct', total') /\ pc' = "done"
    /\ UNCHANGED <<train_index, test_index, sms_df, train_sms, test_sms, vocabulary, word_counts_per_sms,
                   p_spam, p_ham, spam_sms, ham_sms, n_spam, n_ham, n_vocabulary,
                   parameters_spam, parameters_ham, call>>

\* The filter at work: classify_test_set applied to a new message
NewMessage ==
    /\ pc \in {"done", "error"}
    /\ \E message \in Messages :
          call' = [fn |-> "classify_test_set", message |-> message,
                   out |-> classify_test_set(message)]
    /\ UNCHANGED <<train_index, test_index, pc, sms_df, train_sms, test_sms, vocabulary, word_counts_per_sms,
                   p_spam, p_ham, spam_sms, ham_sms, n_spam, n_ham, n_vocabulary,
                   parameters_spam, parameters_ham, correct, total, accuracy>>

Next ==
    \/ ReadCsv
    \/ SplitDataset
    \/ ResetIndex
    \/ CleanTrain
    \/ CreateVocabulary
    \/ CountWords
    \/ ComputePriors
    \/ ComputeConstants
    \/ InitParameters
    \/ ComputeParametersSpam
    \/ ComputeParametersHam
    \/ Classify
    \/ ClassifyTestSet
    \/ ComputeAccuracy
    \/ NewMessage

Spec == Init /\ [][Next]_vars

(***************************************************************************)
(* Properties                                                              *)
(***************************************************************************)
\* Training is over: both parameter tables are computed.
Trained == pc \in {"cell14", "cell15", "cell16", "done", "error"}

Tie == "needs human classification"

Buy == <<"b", "u", "y">>

Occurrences(word, tokens) == Cardinality({k \in 1..Len(tokens) : tokens[k] = word})

RECURSIVE Pow(_, _)
Pow(x, n) == IF n = 0 THEN One ELSE Mul(x, Pow(x, n - 1))

\* prior times P(w|c) to the power of w's occurrences, over the words of
\* the table that are in the remaining set.
RECURSIVE TableProduct(_, _, _, _)
TableProduct(prior, params, tokens, words) ==
    IF words = {}
    THEN prior
    ELSE LET w == CHOOSE x \in words : TRUE
         IN  Mul(Pow(params[w], Occurrences(w, tokens)),
                 TableProduct(prior, params, tokens, words \ {w}))

SpamScore(message) ==
    TableProduct(p_spam, parameters_spam, Tokens(message), DOMAIN parameters_spam)

HamScore(message) ==
    TableProduct(p_ham, parameters_ham, Tokens(message), DOMAIN parameters_ham)

DecisionIsByScores(message, decision) ==
    /\ decision \in {"spam", "ham", Tie}
    /\ decision = "spam" <=> Gt(SpamScore(message), HamScore(message))
    /\ decision = "ham" <=> Gt(HamScore(message), SpamScore(message))
    /\ decision = Tie <=> SpamScore(message) = HamScore(message)

\* C1: classification returns exactly one of spam, ham and tie; with
\* score_c = prior_c times P(token|c) once per occurrence of each message
\* token that is a key of class c's table, it is spam iff
\* score_spam > score_ham, ham iff score_ham > score_spam, tie iff equal.
C1_DecisionRule ==
    /\ call.fn = "classify_test_set" => DecisionIsByScores(call.message, call.out)
    /\ pc \in {"cell16", "done"} =>
          \A i \in 1..Len(test_sms) :
              DecisionIsByScores(test_sms[i].SMS, test_sms[i].predicted)

\* A message with a repeated vocabulary word has been classified as spam
\* after the test set was classified.
C1_Witness ==
    /\ call.fn = "classify_test_set"
    /\ call.message = T_Now_NOW
    /\ <<"n", "o", "w">> \in DOMAIN parameters_spam
    /\ call.out = "spam"
    /\ pc = "done"
    /\ test_sms[1].predicted = "ham"

\* The tokens of the training messages with the label, as the claim counts them.
LabelRows(label) == {i \in 1..Len(train_sms) : train_sms[i].Label = label}

RECURSIVE SumOver(_, _, _)
SumOver(rows, word, all) ==
    IF rows = {}
    THEN 0
    ELSE LET i == CHOOSE x \in rows : TRUE
         IN  (IF all THEN Len(train_sms[i].SMS)
                     ELSE Occurrences(word, train_sms[i].SMS))
             + SumOver(rows \ {i}, word, all)

CorpusTokens == UNION {Range(train_sms[i].SMS) : i \in 1..Len(train_sms)}

Smoothed(word, label) ==
    Div(SumOver(LabelRows(label), word, FALSE) + 1,
        SumOver(LabelRows(label), word, TRUE) + 1 * Cardinality(CorpusTokens))

\* The training set of the example: spam "buy now" and spam "buy cheap".
ExampleCorpus ==
    /\ Len(train_sms) = 2
    /\ {train_sms[1], train_sms[2]} =
          {[Label |-> "spam", SMS |-> Tokens(T_buy_now)],
           [Label |-> "spam", SMS |-> Tokens(T_buy_cheap)]}

\* C2: after training with alpha = 1 the parameter of (w, c) is (occurrences
\* of w in the training messages labelled c + 1) / (word tokens in the
\* messages labelled c + |Vocabulary|), for every vocabulary word and both
\* labels; spam "buy now" and "buy cheap" give P(buy|Spam) = 3/7.
C2_Smoothing ==
    Trained =>
        /\ \A w \in Range(vocabulary) :
              /\ parameters_spam[w] = Smoothed(w, "spam")
              /\ parameters_ham[w] = Smoothed(w, "ham")
        /\ ExampleCorpus => parameters_spam[Buy] = <<3, 7>>

C2_Witness ==
    /\ Trained
    /\ ExampleCorpus
    /\ parameters_spam[Buy] = <<3, 7>>

InVocabulary(word) == word \in Range(vocabulary)

\* The decision for a token sequence, by the classifier's own loop.
DecisionOfTokens(tokens) ==
    Compare(ScoreLoop(p_spam, tokens, parameters_spam, 1),
            ScoreLoop(p_ham, tokens, parameters_ham, 1))

AllOutOfVocabulary(message) ==
    \A k \in 1..Len(Tokens(message)) : ~InVocabulary(Tokens(message)[k])

\* C3: an out-of-vocabulary token contributes no factor to either score: the
\* decision for a message is the decision for the message with its
\* out-of-vocabulary tokens removed, and a message made only of such tokens
\* is spam iff P(Spam) > P(Ham).
C3_UnknownWordsAreNeutral ==
    call.fn = "classify_test_set" =>
        /\ call.out = DecisionOfTokens(SelectSeq(Tokens(call.message), InVocabulary))
        /\ AllOutOfVocabulary(call.message) =>
              /\ call.out = "spam" <=> Gt(p_spam, p_ham)
              /\ call.out = "ham" <=> Gt(p_ham, p_spam)

\* A message with a known and an unknown word was classified.
C3_Witness ==
    /\ call.fn = "classify_test_set"
    /\ call.message = T_buy_cheap
    /\ InVocabulary(Buy)
    /\ ~InVocabulary(<<"c", "h", "e", "a", "p">>)
    /\ call.out = "spam"

InUnitInterval(p) == Gt(p, Zero) /\ ~Gt(p, One)

\* C4: once training has completed on a non-empty vocabulary, both tables
\* have exactly the vocabulary as key set and every entry is in (0, 1], also
\* for the words that never occur with the label; none is the placeholder 0
\* when a message is classified.
C4_ParametersPositive ==
    (Trained /\ vocabulary # <<>>) =>
        /\ DOMAIN parameters_spam = Range(vocabulary)
        /\ DOMAIN parameters_ham = Range(vocabulary)
        /\ \A w \in Range(vocabulary) :
              /\ InUnitInterval(parameters_spam[w])
              /\ InUnitInterval(parameters_ham[w])
              /\ parameters_spam[w] # Zero
              /\ parameters_ham[w] # Zero

\* A message was classified with a table that holds a word never seen with
\* the label.
C4_Witness ==
    /\ pc = "cell15"
    /\ call.fn = "classify"
    /\ \E w \in Range(vocabulary) :
          /\ SumOver(LabelRows("ham"), w, FALSE) = 0
          /\ SumOver(LabelRows("spam"), w, FALSE) > 0
          /\ LabelRows("ham") # {}

BothLabels == LabelRows("spam") # {} /\ LabelRows("ham") # {}

PriorsComputed == pc \notin {"cell1", "cell2", "cell2_reset", "cell5", "cell6", "cell7", "cell10"}

\* C5: for a non-empty training corpus with both labels each prior is the
\* number of training messages with the label over the number of training
\* messages, unsmoothed, and P(Spam) + P(Ham) = 1.
C5_Priors ==
    (PriorsComputed /\ BothLabels) =>
        /\ p_spam = Div(Cardinality(LabelRows("spam")), Len(train_sms))
        /\ p_ham = Div(Cardinality(LabelRows("ham")), Len(train_sms))
        /\ Add(p_spam, p_ham) = One

C5_Witness ==
    /\ PriorsComputed
    /\ BothLabels
    /\ p_spam = <<1, 3>>
    /\ p_ham = <<2, 3>>

\* C6: training on an empty corpus or on a corpus without a message of one
\* of the two labels (alpha is the constant 1, never <= 0) halts with a
\* ConfigurationError: no priors or parameter tables are produced and no
\* message is classified with them.
C6_ConfigurationError ==
    ~BothLabels => (~PriorsComputed /\ call.fn = "none")

\* C7: under a model trained on both labels, a message whose token sequence
\* is empty is deferred to a human, and so is a message of out-of-vocabulary
\* tokens only when the priors are equal.
C7_EmptyMessageIsTie ==
    (/\ call.fn = "classify_test_set"
     /\ BothLabels
     /\ \/ Tokens(call.message) = <<>>
        \/ (AllOutOfVocabulary(call.message) /\ p_spam = p_ham))
    => call.out = Tie

\* C7 as amended: a message whose token sequence is empty, or all of whose
\* tokens are out-of-vocabulary, is deferred to a human when the two priors
\* are equal.
C7_TieOnEqualPriors ==
    (/\ call.fn = "classify_test_set"
     /\ AllOutOfVocabulary(call.message)
     /\ p_spam = p_ham)
    => call.out = Tie

\* The empty message was deferred under equal priors and a non-empty
\* vocabulary.
C7_Witness ==
    /\ call.fn = "classify_test_set"
    /\ BothLabels
    /\ p_spam = p_ham
    /\ vocabulary # <<>>
    /\ call.message = <<>>
    /\ call.out = Tie

TestRows == 1..Len(test_sms)

C9_HeldOut ==
    pc = "cell2_reset" => Range(train_index) \cap Range(test_index) = {}

VocabularyBuilt == pc \notin {"cell1", "cell2", "cell2_reset", "cell5", "cell6"}

\* C10: the vocabulary has no duplicates and is exactly the set of distinct
\* tokens of the tokenised training messages: each of them is in it exactly
\* once, and nothing else is.
C10_Vocabulary ==
    VocabularyBuilt =>
        /\ \A i, j \in 1..Len(vocabulary) : vocabulary[i] = vocabulary[j] => i = j
        /\ \A w \in CorpusTokens : Occurrences(w, vocabulary) = 1
        /\ Range(vocabulary) \subseteq CorpusTokens

\* A vocabulary of three words built from messages that repeat a word.
C10_Witness ==
    /\ pc = "cell7"
    /\ Len(vocabulary) = 3
    /\ Len(AppendAll(train_sms, 1)) > 3

\* The line classify prints for a decision of classify_test_set.
PrintedFor(decision) ==
    CASE decision = "ham" -> "Label: Ham"
      [] decision = "spam" -> "Label: Spam"
      [] decision = Tie -> "Equal proabilities, have a human classify this!"

\* C11: classify and classify_test_set are the same decision procedure: for
\* every trained model and message, classify prints Label: Ham, Label: Spam
\* or the have-a-human-classify line exactly when classify_test_set returns
\* ham, spam or needs human classification.
C11_SameDecision ==
    call.fn = "classify" =>
        call.out = PrintedFor(classify_test_set(call.message))

\* classify deferred a message with a vocabulary word to a human, under a
\* model trained on both labels.
C11_Witness ==
    /\ call.fn = "classify"
    /\ BothLabels
    /\ Tokens(call.message) # <<>>
    /\ ~AllOutOfVocabulary(call.message)
    /\ call.out = "Equal proabilities, have a human classify this!"
    /\ classify_test_set(call.message) = Tie

====
